---- MODULE Spec2Model ----
(***************************************************************************)
(* Vote counter and moderation state machine of the discussion forum       *)
(* (src/threads/views.py, src/threads/forms.py).                           *)
(*                                                                         *)
(* The store holds Thread, Reply and Report rows.  A request is handled    *)
(* in steps (setup, dispatch, post); requests that are split in two model  *)
(* actions keep their view instance in the bag `reqs` between the steps.   *)
(* The model methods update_upvotes, update_status, soft_delete,           *)
(* update_lock and fuzzy_search, the Report and Tag models and the fields  *)
(* upvote_count, is_deleted, is_locked and tags are not part of            *)
(* src/threads/models.py; they are modelled from the specification         *)
(* (sections 3, 4.1, 4.2, 4.4, 4.5).                                       *)
(***************************************************************************)
EXTENDS Integers, FiniteSets, Sequences, Bags, TLC

VARIABLES
    threads,     \* Thread rows of the store, by pk
    replies,     \* Reply rows of the store, by pk
    reports,     \* Report rows of the store; the pk is the position
    now,         \* timezone.now(), in minutes
    reqs,        \* bag of the view instances between two steps of a request
    last,        \* response of the request that completed last
    lastToggle,  \* the toggle applied last, with the row as it was before it
    toggled,     \* per target: the voters with an odd number of applied toggles
    listing,     \* the object list of the listing response served last
    trigrams,    \* the shingle entries of the index, by thread
    mails,       \* the notification threads started, with what became of each
    workers,     \* the populate command's worker processes
    command      \* the populate command's Command.handle

vars == <<threads, replies, reports, now, reqs, last, lastToggle, toggled,
          listing, trigrams, mails, workers, command>>

(* ------------------------------ bounds --------------------------------- *)
MaxReq == 2        \* view instances that can be in flight at once
MaxTime == 6       \* minutes the clock can advance
MaxReports == 4    \* Report rows the store can hold
MaxReplies == 3    \* Reply rows the store can hold
MaxLifeReq == 1    \* lifecycle runs: view instances in flight at once
MaxLifeReports == 1    \* lifecycle runs: Report rows
MaxLifeReplies == 2    \* lifecycle runs: Reply rows
MaxMails == 3      \* notification threads started
MaxQueueTime == 1  \* queue runs: minutes the clock can advance
MaxQueueReports == 3   \* queue runs: Report rows
MaxThreads == 2    \* populate: threads the command is asked for
MaxWorkers == 2    \* populate: worker processes

(* --------------------------- program constants ------------------------- *)
WindowMinutes == 5
ReportLimit == 3

(* ------------------------------ population ----------------------------- *)
Users == {"ana", "bo", "mod"}
Staff == {"mod"}
Voters == {"ana", "bo"}      \* the users who vote in SpecVote
Threads == {1}
Replies == {1}
Pks == {1, 2}
Types == {"thread", "reply", "other"}
NoObj == 0

ThreadAuthor(pk) == IF pk = 1 THEN "ana" ELSE "bo"
ReplyAuthor(pk) == "bo"
ReplyThread(pk) == 1
ThreadCategory(pk) == IF pk = 4 THEN "ece" ELSE "cse"
ThreadTitle(pk) ==
    IF pk = 1 THEN <<"D", "a", "t", "a">>
    ELSE IF pk = 2 THEN <<"d", "a", "t", "e">>
    ELSE IF pk = 3 THEN <<"o", "s">>
    ELSE <<"d", "a", "t", "a">>
ThreadTags(pk) ==
    IF pk = 1 THEN {"#ml", "#os"}
    ELSE IF pk = 2 THEN {"#ai"}
    ELSE IF pk = 3 THEN {"#ml"}
    ELSE {"#os"}
Categories == {"cse", "ece"}
Tags == {"#ml", "#os", "#ai"}

(* ---------------------------- trigram index ---------------------------- *)
\* Section 4.1.
ShingleLen == 3

lower(c) == IF c = "D" THEN "d" ELSE c

Normalize(title) == [i \in DOMAIN title |-> lower(title[i])]

Pad(text) == <<" ">> \o text \o <<" ">>

\* The overlapping shingles of a padded text, in order, repeats included.
Shingles(text) ==
    [i \in 1..(Len(text) - ShingleLen + 1) |->
        SubSeq(text, i, i + ShingleLen - 1)]

\* index(threadID, title): the shingle entries of a thread.
index(title) == Shingles(Pad(Normalize(title)))

\* The entries the index holds when it is consistent with the titles.
IndexOf(table) == [pk \in DOMAIN table |-> index(table[pk].title)]

\* Command.handle before the command is run.
NoCommand == [pc |-> "-"]

(* ------------------------------- store --------------------------------- *)
Objects(type) ==
    IF type = "thread" THEN DOMAIN threads
    ELSE IF type = "reply" THEN DOMAIN replies
    ELSE {}

Row(type, pk) == IF type = "thread" THEN threads[pk] ELSE replies[pk]

Targets == {<<ty, pk>> : ty \in {"thread", "reply"}, pk \in Pks}

One(x) == SetToBag({x})

\* The view instances that can be in flight: the request's user, type and
\* pk, the model of self.object and the upvote_count it was loaded with.
Instances ==
    [view : {"upvote", "report", "reply"}, user : Users, type : Types,
     model : Types, pk : Pks, upvote_count : 0..Cardinality(Users)]

Response(view, outcome) == [view |-> view, outcome |-> outcome]

NoToggle == [user |-> "-", type |-> "-", pk |-> NoObj, upvote_count |-> 0,
             upvotes |-> {}, stale |-> FALSE, repeat |-> FALSE]

Init ==
    /\ threads = [t \in Threads |->
                    [author |-> ThreadAuthor(t), upvote_count |-> 0,
                     upvotes |-> {}, is_deleted |-> FALSE,
                     is_locked |-> FALSE, category |-> ThreadCategory(t),
                     title |-> ThreadTitle(t), tags |-> {},
                     created_at |-> 0]]
    /\ replies = [r \in Replies |->
                    [author |-> ReplyAuthor(r), thread |-> ReplyThread(r),
                     upvote_count |-> 0, upvotes |-> {},
                     is_deleted |-> FALSE, created_at |-> 0]]
    /\ reports = <<>>
    /\ now = 0
    /\ reqs = EmptyBag
    /\ last = Response("-", "-")
    /\ lastToggle = NoToggle
    /\ toggled = [t \in Targets |-> {}]
    /\ listing = <<>>
    /\ trigrams = IndexOf(threads)
    /\ mails = EmptyBag
    /\ workers = <<>>
    /\ command = NoCommand

(* ---------------------------- vote counter ----------------------------- *)
\* update_upvotes of Thread and Reply: one read-modify-write of the stored
\* row (section 4.4); `self` is the instance the view loaded in setup.
update_upvotes_stale(row, self, user) ==
    IF user \in row.upvotes
    THEN [row EXCEPT !.upvotes = @ \ {user},
                     !.upvote_count = self.upvote_count - 1]
    ELSE [row EXCEPT !.upvotes = @ \cup {user},
                     !.upvote_count = self.upvote_count + 1]

update_upvotes_nodec(row, self, user) ==
    IF user \in row.upvotes
    THEN [row EXCEPT !.upvotes = @ \ {user}]
    ELSE [row EXCEPT !.upvotes = @ \cup {user}, !.upvote_count = @ + 1]

update_upvotes(row, self, user) ==
    IF user \in row.upvotes
    THEN [row EXCEPT !.upvotes = @ \ {user}, !.upvote_count = @ - 1]
    ELSE [row EXCEPT !.upvotes = @ \cup {user}, !.upvote_count = @ + 1]

\* UpvoteView.setup: the model whose row is loaded for a type.
UpvoteObjectThread(type) == "thread"

UpvoteObject(type) == type

\* UpvoteView.dispatch
UpvoteDispatch(type) == type \in {"thread", "reply"}

\* UpvoteView.setup + UpvoteView.dispatch
UpvoteSetup(user, type, pk) ==
    /\ BagCardinality(reqs) < MaxReq
    /\ IF UpvoteDispatch(type) /\ pk \in Objects(UpvoteObject(type))
       THEN /\ reqs' = reqs (+) One(
                  [view |-> "upvote", user |-> user, type |-> type,
                   model |-> UpvoteObject(type), pk |-> pk,
                   upvote_count |-> Row(UpvoteObject(type), pk).upvote_count])
            /\ UNCHANGED last
       ELSE /\ last' = Response("upvote", "NotFound")
            /\ UNCHANGED reqs
    /\ UNCHANGED <<threads, replies, reports, now, lastToggle, toggled, listing>>
    /\ UNCHANGED <<trigrams, mails, workers, command>>

\* UpvoteView.post
UpvotePost(self) ==
    LET row == Row(self.model, self.pk)
        new == update_upvotes(row, self, self.user)
        target == <<self.type, self.pk>>
    IN  /\ BagIn(self, reqs)
        /\ self.view = "upvote"
        /\ IF self.model = "thread"
           THEN /\ threads' = [threads EXCEPT ![self.pk] = new]
                /\ UNCHANGED replies
           ELSE /\ replies' = [replies EXCEPT ![self.pk] = new]
                /\ UNCHANGED threads
        /\ last' = Response("upvote", "ok")
        /\ lastToggle' = [user |-> self.user, type |-> self.type,
                          pk |-> self.pk,
                          upvote_count |-> row.upvote_count,
                          upvotes |-> row.upvotes,
                          stale |-> (self.upvote_count # row.upvote_count),
                          repeat |-> /\ lastToggle.user = self.user
                                     /\ lastToggle.type = self.type
                                     /\ lastToggle.pk = self.pk]
        /\ toggled' = [toggled EXCEPT ![target] =
                          IF self.user \in @ THEN @ \ {self.user}
                          ELSE @ \cup {self.user}]
        /\ reqs' = reqs (-) One(self)
        /\ UNCHANGED <<reports, now, listing>>
        /\ UNCHANGED <<trigrams, mails, workers, command>>

(* ------------------------- vote counter: claims ------------------------ *)
InFlight(view, type, pk) ==
    \E r \in BagToSet(reqs) : r.view = view /\ r.type = type /\ r.pk = pk

\* C1: in every state reached by toggles of any voters on any targets,
\* each thread's and each reply's upvote_count equals the number of voters
\* recorded for it, and is never negative.
C1_CountIsVoterSetSize ==
    /\ \A t \in Threads :
          /\ threads[t].upvote_count = Cardinality(threads[t].upvotes)
          /\ threads[t].upvote_count >= 0
    /\ \A r \in Replies :
          /\ replies[r].upvote_count = Cardinality(replies[r].upvotes)
          /\ replies[r].upvote_count >= 0

\* A removal has just been applied while a thread holds two votes and a
\* reply one.
C1_Witness ==
    /\ last = Response("upvote", "ok")
    /\ lastToggle.user \in lastToggle.upvotes
    /\ \E t \in Threads : threads[t].upvote_count = 2
    /\ \E r \in Replies : replies[r].upvote_count = 1

\* C2: no toggle is lost under any interleaving of setup and post: once no
\* upvote request on a target is in flight, the target's voters are exactly
\* the users with an odd number of applied toggles and upvote_count is
\* their number; N first toggles of N distinct voters give count N.
C2_NoToggleLost ==
    \A ty \in {"thread", "reply"} : \A pk \in Objects(ty) :
        ~InFlight("upvote", ty, pk) =>
            /\ Row(ty, pk).upvotes = toggled[<<ty, pk>>]
            /\ Row(ty, pk).upvote_count = Cardinality(toggled[<<ty, pk>>])

\* Two voters loaded the same thread before either voted; both toggles
\* have been applied, the second on an instance loaded before the first.
C2_Witness ==
    /\ reqs = EmptyBag
    /\ lastToggle.stale
    /\ lastToggle.type = "thread"
    /\ lastToggle.upvote_count = 1
    /\ Cardinality(lastToggle.upvotes) = 1
    /\ lastToggle.user \notin lastToggle.upvotes
    /\ threads[lastToggle.pk].upvote_count = 2
    /\ Cardinality(threads[lastToggle.pk].upvotes) = 2

\* C3: every applied toggle flips the voter's membership in the voter set
\* of the target it was requested for, leaves the other voters alone and
\* changes upvote_count by exactly 1 (down if the voter was recorded, up
\* otherwise); a toggle that directly follows a toggle of the same voter on
\* the same target restores the count and the voter set from before the
\* first of the two.
C3_ToggleFlips ==
    [][\A self \in BagToSet(reqs) :
          (self.view = "upvote" /\ UpvotePost(self)) =>
             LET before == Row(self.type, self.pk)
                 after == Row(self.type, self.pk)'
                 v == self.user
             IN  /\ (v \in after.upvotes) <=> (v \notin before.upvotes)
                 /\ after.upvotes \ {v} = before.upvotes \ {v}
                 /\ after.upvote_count = before.upvote_count
                       + (IF v \in before.upvotes THEN -1 ELSE 1)
                 /\ (/\ lastToggle.user = v
                     /\ lastToggle.type = self.type
                     /\ lastToggle.pk = self.pk)
                       => /\ after.upvote_count = lastToggle.upvote_count
                          /\ after.upvotes = lastToggle.upvotes
      ]_vars

\* A voter's toggle on a reply has just undone that voter's own previous
\* toggle on it, while another voter's vote stayed in place.
C3_Witness ==
    /\ lastToggle.repeat
    /\ lastToggle.type = "reply"
    /\ lastToggle.user \in lastToggle.upvotes
    /\ replies[lastToggle.pk].upvote_count = 1
    /\ lastToggle.upvote_count = 2

NextVote ==
    \/ \E u \in Voters, ty \in Types, pk \in Pks : UpvoteSetup(u, ty, pk)
    \/ \E self \in Instances : UpvotePost(self)

SpecVote == Init /\ [][NextVote]_vars

(* --------------------------- report filing ----------------------------- *)
\* ReportCreateView.setup: the object the report is about.
ReportFound(type, pk) ==
    type \in {"thread", "reply"} => pk \in Objects(type)

\* ReportCreateView.dispatch
ReportDispatchAny(type) == TRUE

ReportDispatch(type) == type \in {"thread", "reply"}

\* ReportCreateForm.clean: the reporter's reports of the last five minutes.
report_count_bucket(reporter) ==
    Cardinality({i \in DOMAIN reports :
        /\ reports[i].reporter = reporter
        /\ reports[i].created_at \div WindowMinutes = now \div WindowMinutes})

report_count(reporter) ==
    LET time_delay == now - WindowMinutes
    IN  Cardinality({i \in DOMAIN reports :
            /\ reports[i].reporter = reporter
            /\ reports[i].created_at >= time_delay})

\* ReportCreateForm.clean: 'You are reporting too fast!'
TooFastAbove(reporter) == report_count(reporter) > ReportLimit

TooFast(reporter) == report_count(reporter) >= ReportLimit

\* A Report as the model creates it (section 3): PENDING, stamped now.
NewReport ==
    [reporter |-> "-", thread |-> NoObj, reply |-> NoObj,
     status |-> "PENDING", created_at |-> now]

\* Room for one more Report row, counting the validated forms in flight.
HasRoom ==
    Len(reports) + BagCardinality(reqs) < MaxReports

\* ReportCreateView.setup, dispatch and the form validation of post.
ReportClean(user, type, pk) ==
    /\ BagCardinality(reqs) < MaxReq
    /\ HasRoom
    /\ IF ~(ReportFound(type, pk) /\ ReportDispatch(type))
       THEN /\ last' = Response("report", "NotFound")
            /\ UNCHANGED reqs
       ELSE IF TooFast(user)
       THEN /\ last' = Response("report", "RateLimited")
            /\ UNCHANGED reqs
       ELSE /\ reqs' = reqs (+) One(
                  [view |-> "report", user |-> user, type |-> type,
                   model |-> type, pk |-> pk, upvote_count |-> 0])
            /\ UNCHANGED last
    /\ UNCHANGED <<threads, replies, reports, now, lastToggle, toggled, listing>>
    /\ UNCHANGED <<trigrams, mails, workers, command>>

\* ReportCreateView.form_valid
ReportFormValid(self) ==
    /\ BagIn(self, reqs)
    /\ self.view = "report"
    /\ reports' = Append(reports,
          [NewReport EXCEPT
              !.reporter = self.user,
              !.thread = IF self.type = "thread" THEN self.pk ELSE @,
              !.reply = IF self.type = "reply" THEN self.pk ELSE @])
    /\ last' = Response("report", "ok")
    /\ reqs' = reqs (-) One(self)
    /\ UNCHANGED <<threads, replies, now, lastToggle, toggled, listing>>
    /\ UNCHANGED <<trigrams, mails, workers, command>>

\* timezone.now() advances.
Tick ==
    /\ now < MaxTime
    /\ now' = now + 1
    /\ UNCHANGED <<threads, replies, reports, reqs, last, lastToggle, toggled, listing>>
    /\ UNCHANGED <<trigrams, mails, workers, command>>

\* The report requests: one reporter per kind of target, and a request
\* with an unknown kind.
ReportInputs ==
    {<<"ana", "thread", 1>>, <<"bo", "reply", 1>>, <<"bo", "other", 1>>}

(* ------------------------- report filing: claims ----------------------- *)
ValidTarget(type, pk) ==
    \/ type = "thread" /\ pk \in Threads
    \/ type = "reply" /\ pk \in Replies

ReportRequest(user, type, pk) ==
    [view |-> "report", user |-> user, type |-> type, model |-> type,
     pk |-> pk, upvote_count |-> 0]

\* The reports of a reporter that are at most five minutes old.
Trailing(user) ==
    {i \in DOMAIN reports :
        reports[i].reporter = user /\ now - reports[i].created_at <= 5}

\* C4: a report submission on an existing thread or reply is rejected with
\* RateLimited, creating no Report, exactly when the reporter has 3 or more
\* reports in the trailing 5-minute window at the time of the check;
\* otherwise it is accepted and creates exactly one new PENDING Report of
\* that reporter; Reports are created in no other way.
C4_RateLimitedOrCreated ==
    [][/\ \A u \in Users, ty \in Types, pk \in Pks :
            (ValidTarget(ty, pk) /\ ReportClean(u, ty, pk)) =>
               IF Cardinality(Trailing(u)) >= 3
               THEN /\ last' = Response("report", "RateLimited")
                    /\ reports' = reports
                    /\ reqs' = reqs
               ELSE /\ reqs' = reqs (+) One(ReportRequest(u, ty, pk))
                    /\ reports' = reports
                    /\ last' = last
       /\ \A self \in BagToSet(reqs) :
            (self.view = "report" /\ ReportFormValid(self)) =>
               /\ Len(reports') = Len(reports) + 1
               /\ SubSeq(reports', 1, Len(reports)) = reports
               /\ reports'[Len(reports')].reporter = self.user
               /\ reports'[Len(reports')].status = "PENDING"
               /\ last' = Response("report", "ok")
       /\ Len(reports') # Len(reports) =>
            \E self \in BagToSet(reqs) :
               self.view = "report" /\ reqs' = reqs (-) One(self)
      ]_vars

\* A submission has just been rejected for a reporter with three reports
\* in the window; nothing of it is in the store or in flight.
C4_Witness ==
    /\ last = Response("report", "RateLimited")
    /\ Len(reports) = 3
    /\ \A i \in DOMAIN reports :
          reports[i].reporter = "ana" /\ reports[i].status = "PENDING"
    /\ Cardinality(Trailing("ana")) = 3
    /\ reqs = EmptyBag

\* C5: the limit is a sliding window per reporter: a submission by a
\* reporter with three reports filed at most 5 minutes ago is rejected,
\* and a submission by a reporter with fewer than three such reports is
\* accepted, however many older reports the reporter has and whatever the
\* other reporters filed.
C5_SlidingWindow ==
    [][\A u \in Users, ty \in Types, pk \in Pks :
          (ValidTarget(ty, pk) /\ ReportClean(u, ty, pk)) =>
             LET mine == {i \in DOMAIN reports : reports[i].reporter = u}
                 old == {i \in mine : reports[i].created_at + 5 < now}
                 accepted == reqs' = reqs (+) One(ReportRequest(u, ty, pk))
             IN  /\ (\E i, j, k \in mine \ old :
                        i # j /\ j # k /\ i # k) => ~accepted
                 /\ (\A i, j, k \in mine \ old :
                        i = j \/ j = k \/ i = k) => accepted
      ]_vars

\* A fourth report of a reporter has been created after the first three
\* left the window, while they were still in the store.
C5_Witness ==
    /\ last = Response("report", "ok")
    /\ Len(reports) = 4
    /\ \A i \in DOMAIN reports : reports[i].reporter = "ana"
    /\ \A i \in 1..3 : reports[i].created_at + 5 < reports[4].created_at
    /\ reports[4].created_at = now

\* C6: the count check and the insert of a submission are one atomic step
\* per reporter: no state holds more than 3 reports of one reporter whose
\* creation times lie in one 5-minute window.
C6_AtMostThreePerWindow ==
    \A u \in Users : \A t \in 0..now :
        Cardinality({i \in DOMAIN reports :
            /\ reports[i].reporter = u
            /\ reports[i].created_at <= t
            /\ t - reports[i].created_at <= 5}) <= 3

NextReport ==
    \/ \E in \in ReportInputs : ReportClean(in[1], in[2], in[3])
    \/ \E self \in Instances : ReportFormValid(self)
    \/ Tick

SpecReport == Init /\ [][NextReport]_vars

(* ---------------------------- moderation ------------------------------- *)
\* ReportUpdateStatusView.test_func
ResolveTestFuncAnyone(user) == TRUE

ResolveTestFunc(user) == user \in Staff

\* Report.update_status (section 4.5): PENDING -> RESOLVED; a second
\* resolution is refused (raised to the caller; post has no handler for it,
\* so the refusal is the response of the request).
update_status_again(report) ==
    [outcome |-> "ok", report |-> [report EXCEPT !.status = "RESOLVED"]]

update_status(report) ==
    IF report.status = "PENDING"
    THEN [outcome |-> "ok", report |-> [report EXCEPT !.status = "RESOLVED"]]
    ELSE [outcome |-> "InvalidTransition", report |-> report]

\* ReportUpdateStatusView: setup, test_func, post
Resolve(user, pk) ==
    /\ IF pk \notin DOMAIN reports
       THEN /\ last' = Response("resolve", "NotFound")
            /\ UNCHANGED reports
       ELSE IF ~ResolveTestFunc(user)
       THEN /\ last' = Response("resolve", "Forbidden")
            /\ UNCHANGED reports
       ELSE LET done == update_status(reports[pk])
            IN  /\ reports' = [reports EXCEPT ![pk] = done.report]
                /\ last' = Response("resolve", done.outcome)
    /\ UNCHANGED <<threads, replies, now, reqs, lastToggle, toggled, listing>>
    /\ UNCHANGED <<trigrams, mails, workers, command>>

\* DeleteView.setup: the rows get_object_or_404 looks the pk up in.
DeleteLookupLive(type) == {pk \in Objects(type) : ~Row(type, pk).is_deleted}

DeleteLookup(type) == Objects(type)

\* DeleteView.dispatch
DeleteDispatch(type) == type \in {"thread", "reply"}

\* DeleteView.test_func
DeleteTestFuncLoggedIn(user, object) == user \in Users

DeleteTestFunc(user, object) == user \in Staff \/ object.author = user

\* soft_delete of Thread and Reply (section 4.5)
soft_delete(row) == [row EXCEPT !.is_deleted = TRUE]

\* DeleteView.post: the table of the object after self.object.soft_delete().
DeletePostRemoves(table, pk) == [k \in DOMAIN table \ {pk} |-> table[k]]

DeletePost(table, pk) == [table EXCEPT ![pk] = soft_delete(@)]

\* DeleteView: setup, dispatch, test_func, post
Delete(user, type, pk) ==
    /\ IF ~(DeleteDispatch(type) /\ pk \in DeleteLookup(type))
       THEN /\ last' = Response("delete", "NotFound")
            /\ UNCHANGED <<threads, replies>>
       ELSE IF ~DeleteTestFunc(user, Row(type, pk))
       THEN /\ last' = Response("delete", "Forbidden")
            /\ UNCHANGED <<threads, replies>>
       ELSE /\ last' = Response("delete", "ok")
            /\ IF type = "thread"
               THEN /\ threads' = DeletePost(threads, pk)
                    /\ UNCHANGED replies
               ELSE /\ replies' = DeletePost(replies, pk)
                    /\ UNCHANGED threads
    /\ UNCHANGED <<reports, now, reqs, lastToggle, toggled, listing>>
    /\ UNCHANGED <<trigrams, mails, workers, command>>

ReportPks == 1..MaxReports

(* --------------------------- moderation: claims ------------------------ *)
\* C7: every Report is created PENDING; the status of a Report changes
\* only from PENDING to RESOLVED, in a resolution step; a RESOLVED Report
\* stays RESOLVED; a resolution asked for by a user who is not staff
\* changes no Report.
C7_PendingThenResolved ==
    [][/\ \A i \in DOMAIN reports' :
            i \notin DOMAIN reports => reports'[i].status = "PENDING"
       /\ \A i \in DOMAIN reports :
            /\ i \in DOMAIN reports'
            /\ reports[i].status = "RESOLVED"
                  => reports'[i].status = "RESOLVED"
            /\ reports'[i].status # reports[i].status =>
                  /\ reports[i].status = "PENDING"
                  /\ reports'[i].status = "RESOLVED"
                  /\ last' = Response("resolve", "ok")
                  /\ \A j \in DOMAIN reports : j # i => reports'[j] = reports[j]
       /\ \A u \in Users \ Staff, pk \in ReportPks :
            Resolve(u, pk) => reports' = reports /\ last'.outcome # "ok"
      ]_vars

\* One report has been resolved by staff and a later request of a user
\* who is not staff to resolve the other one was refused.
C7_Witness ==
    /\ Len(reports) = 2
    /\ reports[1].status = "RESOLVED"
    /\ reports[2].status = "PENDING"
    /\ last = Response("resolve", "Forbidden")

\* C8: a resolution by staff of a Report that is already RESOLVED is
\* rejected with InvalidTransition and changes nothing in the store.
C8_SecondResolveRejected ==
    [][\A u \in Staff, pk \in ReportPks :
          (/\ pk \in DOMAIN reports
           /\ reports[pk].status = "RESOLVED"
           /\ Resolve(u, pk)) =>
              /\ last' = Response("resolve", "InvalidTransition")
              /\ reports' = reports
              /\ UNCHANGED <<threads, replies>>
      ]_vars

\* A second resolution of a report has just been rejected.
C8_Witness ==
    /\ last = Response("resolve", "InvalidTransition")
    /\ \E i \in DOMAIN reports : reports[i].status = "RESOLVED"

\* C9: every Report has exactly one of thread and reply set, to the
\* existing object the submission named; no later step changes the target
\* of a Report or removes the Report; a submission whose kind is neither
\* thread nor reply creates no Report.
C9_ExactlyOneTarget ==
    [][/\ \A i \in DOMAIN reports' :
            /\ (reports'[i].thread = NoObj) # (reports'[i].reply = NoObj)
            /\ reports'[i].thread # NoObj => reports'[i].thread \in Threads
            /\ reports'[i].reply # NoObj => reports'[i].reply \in Replies
       /\ \A i \in DOMAIN reports :
            /\ i \in DOMAIN reports'
            /\ reports'[i].thread = reports[i].thread
            /\ reports'[i].reply = reports[i].reply
       /\ \A self \in BagToSet(reqs) :
            (self.view = "report" /\ ReportFormValid(self)) =>
               LET new == reports'[Len(reports')]
               IN  /\ self.type = "thread" =>
                        new.thread = self.pk /\ new.reply = NoObj
                   /\ self.type = "reply" =>
                        new.reply = self.pk /\ new.thread = NoObj
       /\ \A u \in Users, pk \in Pks :
            ReportClean(u, "other", pk) =>
               /\ reports' = reports
               /\ reqs' = reqs
               /\ last' = Response("report", "NotFound")
      ]_vars

\* A report on a thread and a report on a reply are in the store, one of
\* them resolved since, and a submission of unknown kind was just refused.
C9_Witness ==
    /\ last = Response("report", "NotFound")
    /\ \E i, j \in DOMAIN reports :
          /\ reports[i].thread = 1 /\ reports[i].reply = NoObj
          /\ reports[j].reply = 1 /\ reports[j].thread = NoObj
          /\ reports[i].status = "RESOLVED"
    /\ reqs = EmptyBag

\* C10: softDelete by the author or by staff of a thread or reply that is
\* already deleted succeeds and changes nothing in the store, so a second
\* softDelete leaves the state of the first; the first one sets is_deleted.
C10_DeleteIdempotent ==
    [][\A u \in Users, ty \in {"thread", "reply"} : \A pk \in Objects(ty) :
          (/\ Delete(u, ty, pk)
           /\ (u \in Staff \/ Row(ty, pk).author = u)) =>
              /\ last' = Response("delete", "ok")
              /\ Row(ty, pk)'.is_deleted
              /\ Row(ty, pk).is_deleted =>
                    UNCHANGED <<threads, replies, reports, now, reqs>>
      ]_vars

\* A reply and a thread are deleted and the last request was a delete
\* that succeeded.
C10_Witness ==
    /\ last = Response("delete", "ok")
    /\ \A t \in Threads : threads[t].is_deleted
    /\ \A r \in Replies : replies[r].is_deleted

\* C11: a softDelete asked for by a user who is neither staff nor the
\* author of the target is refused and leaves every thread and reply as it
\* was; is_deleted of a thread or reply becomes true only in a softDelete
\* of that target asked for by staff or by its author.
C11_DeleteOnlyByAuthorOrStaff ==
    [][/\ \A u \in Users, ty \in {"thread", "reply"} :
            \A pk \in Objects(ty) :
               (/\ Delete(u, ty, pk)
                /\ u \notin Staff
                /\ Row(ty, pk).author # u) =>
                   /\ last' = Response("delete", "Forbidden")
                   /\ threads' = threads
                   /\ replies' = replies
       /\ \A ty \in {"thread", "reply"} : \A pk \in Objects(ty) :
            (Row(ty, pk)'.is_deleted /\ ~Row(ty, pk).is_deleted) =>
               /\ last' = Response("delete", "ok")
               /\ \E u \in Users :
                     /\ u \in Staff \/ Row(ty, pk).author = u
                     /\ Delete(u, ty, pk)
               /\ \A u \in Users :
                     Delete(u, ty, pk) =>
                        u \in Staff \/ Row(ty, pk).author = u
      ]_vars

\* The author of the reply has deleted it, and a later softDelete of the
\* thread by a user who is neither its author nor staff was refused.
C11_Witness ==
    /\ last = Response("delete", "Forbidden")
    /\ \A t \in Threads : ~threads[t].is_deleted /\ threads[t].author # "bo"
    /\ \E r \in DOMAIN replies :
          replies[r].is_deleted /\ replies[r].author = "bo"

NextModerate ==
    \/ \E in \in ReportInputs : ReportClean(in[1], in[2], in[3])
    \/ \E self \in Instances : ReportFormValid(self)
    \/ \E u \in Users, pk \in ReportPks : Resolve(u, pk)
    \/ \E u \in Users, ty \in Types, pk \in Pks : Delete(u, ty, pk)

SpecModerate == Init /\ [][NextModerate]_vars

(* ------------------------- locking and replies ------------------------- *)
\* Thread.update_lock (section 4.5): toggles is_locked.
update_lock(row) == [row EXCEPT !.is_locked = ~@]

\* LockView.test_func
LockTestFuncLoggedIn(user) == user \in Users

LockTestFunc(user) == user \in Staff

\* LockView: setup, test_func, post
Lock(user, pk) ==
    /\ IF pk \notin Objects("thread")
       THEN /\ last' = Response("lock", "NotFound")
            /\ UNCHANGED threads
       ELSE IF ~LockTestFunc(user)
       THEN /\ last' = Response("lock", "Forbidden")
            /\ UNCHANGED threads
       ELSE /\ last' = Response("lock", "ok")
            /\ threads' = [threads EXCEPT ![pk] = update_lock(@)]
    /\ UNCHANGED <<replies, reports, now, reqs, lastToggle, toggled, listing>>
    /\ UNCHANGED <<trigrams, mails, workers, command>>

\* The sort keys ThreadListView.dispatch and ThreadDetailView.dispatch
\* let through.
OrderKeys == {"-created_at", "-upvote_count"}

\* The order_by values of the requests: the two recognised keys, the
\* ascending key, and no order_by in the URL (kwargs.get gives None).
OrderInputs == OrderKeys \cup {"upvote_count", "None"}

\* ThreadDetailView.dispatch
DetailDispatch(order_by) == order_by \in OrderKeys

\* ThreadDetailView.get_queryset: the threads get_object finds.
DetailLookupDeletedToo == DOMAIN threads

DetailLookup == {pk \in DOMAIN threads : ~threads[pk].is_deleted}

\* The lock check of ThreadDetailView.post on the thread get_object loaded.
LockCheckSkipped(thread) == FALSE

LockCheck(thread) == thread.is_locked

\* Room for one more Reply row, counting the accepted submissions in flight.
ReplyRoom ==
    Cardinality(DOMAIN replies) + BagCardinality(reqs) < MaxReplies

\* ThreadDetailView: setup, dispatch and post up to the call of form_valid;
\* `valid` is the outcome of form.is_valid().
ReplyPost(user, pk, order_by, valid) ==
    /\ BagCardinality(reqs) < MaxReq
    /\ ReplyRoom
    /\ IF ~DetailDispatch(order_by)
       THEN /\ last' = Response("reply", "NotFound")
            /\ UNCHANGED reqs
       ELSE IF pk \notin DetailLookup
       THEN /\ last' = Response("reply", "NotFound")
            /\ UNCHANGED reqs
       ELSE IF ~valid \/ LockCheck(threads[pk])
       THEN /\ last' = Response("reply", "form_invalid")
            /\ UNCHANGED reqs
       ELSE /\ reqs' = reqs (+) One(
                  [view |-> "reply", user |-> user, type |-> "thread",
                   model |-> "thread", pk |-> pk, upvote_count |-> 0])
            /\ UNCHANGED last
    /\ UNCHANGED <<threads, replies, reports, now, lastToggle, toggled, listing>>
    /\ UNCHANGED <<trigrams, mails, workers, command>>

\* A Reply as form_valid saves it.
NewReply(author, thread) ==
    [author |-> author, thread |-> thread, upvote_count |-> 0,
     upvotes |-> {}, is_deleted |-> FALSE, created_at |-> now]

\* ThreadDetailView.form_valid
ReplyFormValid(self) ==
    /\ BagIn(self, reqs)
    /\ self.view = "reply"
    /\ IF self.pk \in DetailLookup
       THEN LET new == Cardinality(DOMAIN replies) + 1
            IN  /\ replies' = [r \in DOMAIN replies \cup {new} |->
                                 IF r = new THEN NewReply(self.user, self.pk)
                                 ELSE replies[r]]
                /\ last' = Response("reply", "ok")
       ELSE /\ last' = Response("reply", "NotFound")
            /\ UNCHANGED replies
    /\ reqs' = reqs (-) One(self)
    /\ UNCHANGED <<threads, reports, now, lastToggle, toggled, listing>>
    /\ UNCHANGED <<trigrams, mails, workers, command>>

\* The reply submissions: user, pk, order_by and the outcome of
\* form.is_valid().
ReplyInputs ==
    {<<"ana", 1, "-created_at", TRUE>>, <<"bo", 2, "-upvote_count", TRUE>>,
     <<"bo", 1, "-created_at", FALSE>>, <<"ana", 2, "None", TRUE>>,
     <<"bo", 1, "upvote_count", TRUE>>}

NextReply ==
    \/ \E in \in ReplyInputs : ReplyPost(in[1], in[2], in[3], in[4])
    \/ \E self \in Instances : ReplyFormValid(self)
    \/ \E u \in Users, pk \in Pks : Lock(u, pk)
    \/ \E u \in Users, ty \in Types, pk \in Pks : Delete(u, ty, pk)

\* The store of the reply runs: a second thread, of another author, that
\* staff has locked.
ReplyThreads == {1, 2}

InitReply ==
    /\ threads = [t \in ReplyThreads |->
                    [author |-> ThreadAuthor(t), upvote_count |-> 0,
                     upvotes |-> {}, is_deleted |-> FALSE,
                     is_locked |-> (t = 2), category |-> ThreadCategory(t),
                     title |-> ThreadTitle(t), tags |-> {},
                     created_at |-> 0]]
    /\ replies = [r \in Replies |->
                    [author |-> ReplyAuthor(r), thread |-> ReplyThread(r),
                     upvote_count |-> 0, upvotes |-> {},
                     is_deleted |-> FALSE, created_at |-> 0]]
    /\ reports = <<>>
    /\ now = 0
    /\ reqs = EmptyBag
    /\ last = Response("-", "-")
    /\ lastToggle = NoToggle
    /\ toggled = [t \in Targets |-> {}]
    /\ listing = <<>>
    /\ trigrams = IndexOf(threads)
    /\ mails = EmptyBag
    /\ workers = <<>>
    /\ command = NoCommand

SpecReply == InitReply /\ [][NextReply]_vars

(* --------------------- locking and replies: claims --------------------- *)
\* The step adds exactly one Reply, on thread pk by author, and leaves the
\* rows that were there as they were.
OneReplyAdded(pk, author) ==
    /\ Cardinality(DOMAIN replies') = Cardinality(DOMAIN replies) + 1
    /\ \A r \in DOMAIN replies : r \in DOMAIN replies' /\ replies'[r] = replies[r]
    /\ \A r \in DOMAIN replies' \ DOMAIN replies :
          /\ replies'[r].thread = pk
          /\ replies'[r].author = author
          /\ ~replies'[r].is_deleted

\* The submission of a valid reply form reaches the lock check of thread pk.
ReachesLockCheck(u, pk, o) ==
    /\ o \in {"-created_at", "-upvote_count"}
    /\ pk \in DOMAIN threads
    /\ ~threads[pk].is_deleted
    /\ ReplyPost(u, pk, o, TRUE)

\* C14: a reply submission whose lock check observes is_locked = true
\* creates no Reply; a submission whose lock check observed is_locked =
\* false (it is in flight between post and form_valid) creates exactly one
\* Reply on that thread when form_valid runs; a lock leaves the replies in
\* place.
C14_LockCheckDecides ==
    [][/\ \A u \in Users, pk \in Pks, o \in OrderInputs :
            (ReachesLockCheck(u, pk, o) /\ threads[pk].is_locked) =>
               /\ replies' = replies
               /\ reqs' = reqs
               /\ last' = Response("reply", "form_invalid")
       /\ \A u \in Users, pk \in Pks, o \in OrderInputs :
            (ReachesLockCheck(u, pk, o) /\ ~threads[pk].is_locked) =>
               \E self \in BagToSet(reqs') :
                  /\ self.view = "reply" /\ self.user = u /\ self.pk = pk
                  /\ reqs' = reqs (+) One(self)
       /\ \A self \in BagToSet(reqs) :
            (self.view = "reply" /\ ReplyFormValid(self)) =>
               OneReplyAdded(self.pk, self.user)
       /\ \A u \in Users, pk \in Pks : Lock(u, pk) => replies' = replies
      ]_vars

\* C14 (amended): as C14, but a submission whose lock check observed
\* is_locked = false creates its Reply only if the thread is still not
\* deleted when form_valid loads it again (whether or not it has been
\* locked since); if the thread was deleted in between, the submission
\* ends NotFound and creates no Reply.
C14_LockCheckDecidesUnlessDeleted ==
    [][/\ \A u \in Users, pk \in Pks, o \in OrderInputs :
            (ReachesLockCheck(u, pk, o) /\ threads[pk].is_locked) =>
               /\ replies' = replies
               /\ reqs' = reqs
               /\ last' = Response("reply", "form_invalid")
       /\ \A u \in Users, pk \in Pks, o \in OrderInputs :
            (ReachesLockCheck(u, pk, o) /\ ~threads[pk].is_locked) =>
               \E self \in BagToSet(reqs') :
                  /\ self.view = "reply" /\ self.user = u /\ self.pk = pk
                  /\ reqs' = reqs (+) One(self)
       /\ \A self \in BagToSet(reqs) :
            (self.view = "reply" /\ ReplyFormValid(self)) =>
               IF threads[self.pk].is_deleted
               THEN /\ replies' = replies
                    /\ last' = Response("reply", "NotFound")
               ELSE /\ OneReplyAdded(self.pk, self.user)
                    /\ last' = Response("reply", "ok")
       /\ \A u \in Users, pk \in Pks : Lock(u, pk) => replies' = replies
      ]_vars

\* A reply whose lock check passed has been saved on a thread that was
\* locked in between, next to the reply that was there before.
C14_Witness ==
    /\ last = Response("reply", "ok")
    /\ reqs = EmptyBag
    /\ \A t \in Threads : threads[t].is_locked /\ ~threads[t].is_deleted
    /\ Cardinality(DOMAIN replies) = Cardinality(Replies) + 1
    /\ \A r \in DOMAIN replies : replies[r].thread \in Threads

\* C15: a lock request changes the store only when a staff user sends it,
\* and then only is_locked of the thread it names: is_deleted,
\* upvote_count, the voters and every other field of that thread, every
\* other thread, and every reply and report are as before; a softDelete
\* leaves is_locked of every thread as it was.
C15_LockFrame ==
    [][/\ \A u \in Users, pk \in Pks :
            Lock(u, pk) =>
               /\ u \notin Staff => threads' = threads
               /\ DOMAIN threads' = DOMAIN threads
               /\ \A t \in DOMAIN threads :
                     /\ t # pk => threads'[t] = threads[t]
                     /\ threads'[t].is_deleted = threads[t].is_deleted
                     /\ threads'[t].upvote_count = threads[t].upvote_count
                     /\ threads'[t].upvotes = threads[t].upvotes
                     /\ [threads'[t] EXCEPT !.is_locked = FALSE]
                           = [threads[t] EXCEPT !.is_locked = FALSE]
               /\ replies' = replies
               /\ reports' = reports
               /\ reqs' = reqs
       /\ \A u \in Users, ty \in Types, pk \in Pks :
            Delete(u, ty, pk) =>
               \A t \in DOMAIN threads :
                  threads'[t].is_locked = threads[t].is_locked
       /\ \A t \in DOMAIN threads :
            threads'[t].is_locked # threads[t].is_locked =>
               /\ last' = Response("lock", "ok")
               /\ \E u \in Staff : Lock(u, t)
               /\ \A u \in Users : Lock(u, t) => u \in Staff
      ]_vars

\* Staff has locked the thread that has a reply while an accepted reply
\* was in flight, after the thread's author deleted it; the other thread
\* is still locked, and a lock request of a user who is not staff was
\* refused last.
C15_Witness ==
    /\ last = Response("lock", "Forbidden")
    /\ threads[1].is_locked /\ threads[1].is_deleted
    /\ threads[2].is_locked /\ ~threads[2].is_deleted
    /\ \E r \in DOMAIN replies : replies[r].thread = 1
    /\ reqs # EmptyBag

(* ------------------------------ lifecycle ------------------------------ *)
\* The requests of the lifecycle runs: a vote on the thread, a report on
\* the reply, deletions by the author of the thread and by staff, locks by
\* staff and reply submissions on the thread.
LifeVotes == {<<"bo", "thread", 1>>}

LifeReports == {<<"ana", "reply", 1>>}

LifeDeletes ==
    {<<"ana", "thread", 1>>, <<"mod", "reply", 1>>, <<"bo", "reply", 2>>}

\* A further request may start.
LifeRoom == BagCardinality(reqs) < MaxLifeReq

NextLife ==
    \/ \E in \in LifeVotes : LifeRoom /\ UpvoteSetup(in[1], in[2], in[3])
    \/ \E self \in Instances : UpvotePost(self)
    \/ \E pk \in Threads : Lock("mod", pk)
    \/ \E in \in LifeDeletes : Delete(in[1], in[2], in[3])
    \/ \E pk \in Threads :
          /\ LifeRoom
          /\ Cardinality(DOMAIN replies) < MaxLifeReplies
          /\ ReplyPost("bo", pk, "-created_at", TRUE)
    \/ \E self \in Instances : ReplyFormValid(self)
    \/ \E in \in LifeReports :
          /\ LifeRoom
          /\ Len(reports) < MaxLifeReports
          /\ ReportClean(in[1], in[2], in[3])
    \/ \E self \in Instances : ReportFormValid(self)
    \/ \E pk \in ReportPks : Resolve("mod", pk)

SpecLife == Init /\ [][NextLife]_vars

\* C12: deletion is terminal: no step of any operation (vote toggle, lock,
\* softDelete, reply submission, report filing, report resolution) turns
\* is_deleted of a thread or reply from true to false, and no step removes
\* a thread or reply row from the store.
C12_DeletionTerminal ==
    [][/\ \A t \in DOMAIN threads :
            /\ t \in DOMAIN threads'
            /\ threads[t].is_deleted => threads'[t].is_deleted
       /\ \A r \in DOMAIN replies :
            /\ r \in DOMAIN replies'
            /\ replies[r].is_deleted => replies'[r].is_deleted
      ]_vars

\* The thread and a reply are deleted; the thread has since been voted on
\* and replied to before the deletion, and the request served last is a
\* lock of the deleted thread.
C12_Witness ==
    /\ last = Response("lock", "ok")
    /\ \A t \in Threads :
          /\ threads[t].is_deleted
          /\ threads[t].is_locked
          /\ threads[t].upvote_count = 1
    /\ \E r \in DOMAIN replies : replies[r].is_deleted
    /\ Cardinality(DOMAIN replies) > Cardinality(Replies)
    /\ \E i \in DOMAIN reports : reports[i].status = "RESOLVED"

\* C16: lock and unlock are idempotent: a lock request of staff that
\* directly follows a successful lock request on the same thread re-states
\* the lock state that request left (locked again after a lock, unlocked
\* again after an unlock); it succeeds and leaves is_locked as it is.
C16_LockIdempotent ==
    [][\A u \in Staff : \A pk \in DOMAIN threads :
          (/\ DOMAIN threads = {pk}
           /\ last = Response("lock", "ok")
           /\ Lock(u, pk)) =>
              /\ last' = Response("lock", "ok")
              /\ threads'[pk].is_locked = threads[pk].is_locked
      ]_vars

(* ------------------------------- listing ------------------------------- *)
\* A GET parameter: absent (request.GET.get gives None) or given with a
\* text.  The text of q is a sequence of characters; the text of f is the
\* sequence of the names between its commas (str.split(',')).
Absent == [given |-> FALSE, text |-> <<>>]

Param(text) == [given |-> TRUE, text |-> text]

\* Truth value of a parameter in `if self.query` and `if self.filters`.
QueryTruthy(q) == q.given /\ q.text # <<>>

FilterTruthy(f) == f.given /\ f.text # <<"">>

\* Fuzzy search (section 4.2).
MinScore == 2

\* The number of entries of a thread that match a shingle of the query.
Score(query, pk) ==
    LET wanted == {Shingles(Pad(query))[i] : i \in DOMAIN Shingles(Pad(query))}
        entries == trigrams[pk]
    IN  Cardinality({i \in DOMAIN entries : entries[i] \in wanted})

\* Thread.fuzzy_search
fuzzy_search(query) ==
    {pk \in DOMAIN threads : Score(query, pk) >= MinScore}

\* ThreadListView.setup: Tag.objects.filter(name__in=selected)
selected_tags(f) ==
    IF FilterTruthy(f)
    THEN {g \in Tags : \E i \in DOMAIN f.text : f.text[i] # "" /\ f.text[i] = g}
    ELSE {}

\* ThreadListView.get_queryset, lines 33-36
CandidatesSearchAlways(q) ==
    IF q.given THEN fuzzy_search(q.text) ELSE DOMAIN threads

CandidatesNoSearch(q) == DOMAIN threads

Candidates(q) ==
    IF QueryTruthy(q) THEN fuzzy_search(q.text) ELSE DOMAIN threads

\* qs.filter(category=..., is_deleted=False): the rows of a query are
\* pairs of a thread and the tag it was joined with ("-" without a join).
FilterLiveAnyCategory(qs, slug) ==
    {<<pk, "-">> : pk \in {t \in qs : ~threads[t].is_deleted}}

FilterLive(qs, slug) ==
    {<<pk, "-">> : pk \in {t \in qs :
        threads[t].category = slug /\ ~threads[t].is_deleted}}

\* qs.filter(..., tags__in=self.selected_tags): one row per thread and
\* listed tag the thread carries.
FilterTagsAll(rows, tags) ==
    {<<r[1], g>> : r \in rows, g \in tags}

FilterTags(rows, tags) ==
    {row \in {<<r[1], g>> : r \in rows, g \in tags} :
        row[2] \in threads[row[1]].tags}

\* .distinct()
distinct_join_rows(rows) == rows

distinct(rows) == {<<r[1], "-">> : r \in rows}

\* The field of a row of a table that a recognised sort key names.
SortKey(table, key, pk) ==
    IF key = "-created_at" THEN table[pk].created_at
    ELSE table[pk].upvote_count

\* .order_by(key): the orders the database may return the rows in, highest
\* key first; rows with equal keys come in any order.
order_by(rows, table, key) ==
    {seq \in [1..Cardinality(rows) -> rows] :
        /\ \A i, j \in DOMAIN seq : i # j => seq[i] # seq[j]
        /\ \A i, j \in DOMAIN seq :
              i < j => SortKey(table, key, seq[i][1])
                          >= SortKey(table, key, seq[j][1])}

\* ThreadListView.get_queryset: the set of the rows before the ordering.
get_queryset(slug, q, f) ==
    IF FilterTruthy(f)
    THEN distinct(FilterTags(FilterLive(Candidates(q), slug), selected_tags(f)))
    ELSE FilterLive(Candidates(q), slug)

\* ThreadListView.dispatch
ListDispatchAny(key) == TRUE

ListDispatch(key) == key \in OrderKeys

\* ThreadListView: setup, dispatch, get_queryset: the responses the
\* request can get, each with the threads of its object list in order.
ListResponses(slug, key, q, f) ==
    IF slug \notin Categories \/ ~ListDispatch(key)
    THEN {[outcome |-> "NotFound", rows |-> <<>>]}
    ELSE {[outcome |-> "ok", rows |-> [i \in DOMAIN seq |-> seq[i][1]]] :
             seq \in order_by(get_queryset(slug, q, f), threads, key)}

\* A request to ThreadListView
ThreadList(slug, key, q, f) ==
    /\ \E r \in ListResponses(slug, key, q, f) :
          /\ last' = Response("list", r.outcome)
          /\ listing' = r.rows
    /\ UNCHANGED <<threads, replies, reports, now, reqs, lastToggle, toggled>>
    /\ UNCHANGED <<trigrams, mails, workers, command>>

\* ThreadDetailView.get_context_data: the replies shown with the thread.
DetailReplies(pk) ==
    {<<r, "-">> : r \in {x \in DOMAIN replies :
        replies[x].thread = pk /\ ~replies[x].is_deleted}}

\* ThreadDetailView on GET: setup, dispatch, get_object, get_context_data:
\* the responses the request can get, each with its replies in order.
DetailResponses(pk, key) ==
    IF ~DetailDispatch(key) \/ pk \notin DetailLookup
    THEN {[outcome |-> "NotFound", rows |-> <<>>]}
    ELSE {[outcome |-> "ok", rows |-> [i \in DOMAIN seq |-> seq[i][1]]] :
             seq \in order_by(DetailReplies(pk), replies, key)}

\* A GET request to ThreadDetailView
ThreadDetail(pk, key) ==
    /\ \E r \in DetailResponses(pk, key) :
          /\ last' = Response("detail", r.outcome)
          /\ listing' = r.rows
    /\ UNCHANGED <<threads, replies, reports, now, reqs, lastToggle, toggled>>
    /\ UNCHANGED <<trigrams, mails, workers, command>>

\* The requests of the listing runs.
DetailPks == {1, 2, 5}

Slugs == Categories \cup {"none"}

Queries ==
    {Absent, Param(<<>>), Param(<<"d">>), Param(<<"d", "a">>),
     Param(<<"d", "a", "t">>), Param(<<"o", "s">>)}

Filters ==
    {Absent, Param(<<"">>), Param(<<"", "">>), Param(<<"#ml">>),
     Param(<<"#ml", "#os">>), Param(<<"#xx", "">>)}

\* The order_by values of the list requests (the route always has one).
ListOrders == OrderKeys \cup {"upvote_count"}

\* The store of the listing runs: three threads of one category and one of
\* another, with the votes of any of the voters on the first two and one
\* vote on the third.
ListThreads == {1, 2, 3, 4}

\* Two replies on the first thread, the older one with a vote.
ListReplies == {1, 2}

InitList ==
    /\ \E votes \in [ListThreads -> SUBSET Voters] :
          /\ votes[3] = {"ana"}
          /\ votes[4] = {}
          /\ threads = [t \in ListThreads |->
                [author |-> ThreadAuthor(t),
                 upvote_count |-> Cardinality(votes[t]),
                 upvotes |-> votes[t], is_deleted |-> FALSE,
                 is_locked |-> FALSE, category |-> ThreadCategory(t),
                 title |-> ThreadTitle(t), tags |-> ThreadTags(t),
                 created_at |-> t]]
    /\ replies = [r \in ListReplies |->
                    [author |-> ReplyAuthor(r), thread |-> ReplyThread(r),
                     upvote_count |-> IF r = 1 THEN 1 ELSE 0,
                     upvotes |-> IF r = 1 THEN {"ana"} ELSE {},
                     is_deleted |-> FALSE, created_at |-> r]]
    /\ reports = <<>>
    /\ now = 0
    /\ reqs = EmptyBag
    /\ last = Response("-", "-")
    /\ lastToggle = NoToggle
    /\ toggled = [t \in Targets |-> {}]
    /\ listing = <<>>
    /\ trigrams = IndexOf(threads)
    /\ mails = EmptyBag
    /\ workers = <<>>
    /\ command = NoCommand

NextList ==
    \/ \E slug \in Slugs, key \in ListOrders, q \in Queries, f \in Filters :
          ThreadList(slug, key, q, f)
    \/ \E pk \in DetailPks, key \in OrderInputs : ThreadDetail(pk, key)
    \/ \E pk \in ListThreads : Delete("mod", "thread", pk)

SpecList == InitList /\ [][NextList]_vars

(* --------------------------- listing: claims --------------------------- *)
\* The threads of a sequence of pks.
Listed(rows) == {rows[i] : i \in DOMAIN rows}

\* C13: for every category, query, tag filter and recognised sort key, no
\* response of the thread listing contains a thread that is deleted or a
\* thread of another category, whatever the store holds.
C13_NoDeletedNoOtherCategory ==
    \A slug \in Slugs, key \in {"-created_at", "-upvote_count"},
       q \in Queries, f \in Filters :
        \A r \in ListResponses(slug, key, q, f) :
            \A i \in DOMAIN r.rows :
               /\ r.rows[i] \in DOMAIN threads
               /\ ~threads[r.rows[i]].is_deleted
               /\ threads[r.rows[i]].category = slug

\* A listing of the category with three threads has been served after
\* one of them was deleted: it shows the other two.
C13_Witness ==
    /\ last = Response("list", "ok")
    /\ Len(listing) = 2
    /\ \E t \in DOMAIN threads :
          /\ threads[t].is_deleted
          /\ threads[t].category = "cse"
          /\ t \notin Listed(listing)
    /\ \A i \in DOMAIN listing :
          /\ ~threads[listing[i]].is_deleted
          /\ threads[listing[i]].category = "cse"

\* C17: when a tag set is supplied, the threads of the listing are exactly
\* the threads of the category that are not deleted, are search matches if
\* a query is given (any thread otherwise) and carry at least one of the
\* listed tags.
C17_TagFilterIsUnion ==
    \A slug \in Categories, key \in {"-created_at", "-upvote_count"},
       q \in Queries, f \in Filters :
        (f.given /\ f.text # <<"">>) =>
            \A r \in ListResponses(slug, key, q, f) :
               /\ r.outcome = "ok"
               /\ Listed(r.rows) =
                     {t \in DOMAIN threads :
                        /\ ~threads[t].is_deleted
                        /\ threads[t].category = slug
                        /\ (q.given /\ q.text # <<>>) =>
                              t \in fuzzy_search(q.text)
                        /\ \E i \in DOMAIN f.text :
                              f.text[i] \in threads[t].tags}

\* With no thread deleted, a listing has been served that shows the
\* thread carrying both tags #ml and #os and the thread carrying #ml, and
\* not the thread of the category that carries neither: the listing of a
\* tag filter (no query matches just these two).
C17_Witness ==
    /\ last = Response("list", "ok")
    /\ \A t \in DOMAIN threads : ~threads[t].is_deleted
    /\ Listed(listing) = {1, 3}
    /\ Len(listing) = 2
    /\ threads[1].tags = {"#ml", "#os"} /\ threads[3].tags = {"#ml"}
    /\ threads[2].category = threads[1].category
    /\ threads[2].tags \cap {"#ml", "#os"} = {}

\* C18: a thread list request or a thread detail request whose sort key
\* is not '-created_at' or '-upvote_count' gets an error response with no
\* threads or replies in it, and the step that serves it leaves the store
\* as it was; a request with one of the two keys for an existing category,
\* respectively a thread that is not deleted, is served.
C18_BadSortKeyRejected ==
    /\ [](\A slug \in Slugs, key \in ListOrders, q \in Queries, f \in Filters :
            \A r \in ListResponses(slug, key, q, f) :
               IF key \in {"-created_at", "-upvote_count"}
               THEN slug \in Categories => r.outcome = "ok"
               ELSE r.outcome = "NotFound" /\ r.rows = <<>>)
    /\ [](\A pk \in DetailPks, key \in OrderInputs :
            \A r \in DetailResponses(pk, key) :
               IF key \in {"-created_at", "-upvote_count"}
               THEN (pk \in DOMAIN threads /\ ~threads[pk].is_deleted)
                       => r.outcome = "ok"
               ELSE r.outcome = "NotFound" /\ r.rows = <<>>)
    /\ [][last'.outcome = "NotFound" /\ last'.view \in {"list", "detail"} =>
            /\ listing' = <<>>
            /\ UNCHANGED <<threads, replies, reports, now, reqs>>]_vars

\* A detail request without a recognised sort key has just been refused
\* for a thread that is not deleted and has replies to show.
C18_Witness ==
    /\ last = Response("detail", "NotFound")
    /\ listing = <<>>
    /\ trigrams = IndexOf(threads)
    /\ mails = EmptyBag
    /\ workers = <<>>
    /\ command = NoCommand
    /\ \A t \in DetailPks \cap DOMAIN threads : ~threads[t].is_deleted
    /\ \E r \in DOMAIN replies : replies[r].thread = 1 /\ ~replies[r].is_deleted
    /\ \E t \in DOMAIN threads : threads[t].is_deleted

\* C19: the order of a listing is fixed by the store: with '-created_at'
\* the threads come newest first; with '-upvote_count' they come by
\* upvote_count, highest first, and threads with equal upvote_count come
\* newest first; so a request has one possible response.
C19_OrderDeterministic ==
    \A slug \in Categories, q \in Queries, f \in Filters :
        /\ \A r \in ListResponses(slug, "-created_at", q, f) :
              \A i, j \in DOMAIN r.rows :
                 i < j => threads[r.rows[i]].created_at
                             >= threads[r.rows[j]].created_at
        /\ \A r \in ListResponses(slug, "-upvote_count", q, f) :
              \A i, j \in DOMAIN r.rows :
                 i < j =>
                    \/ threads[r.rows[i]].upvote_count
                          > threads[r.rows[j]].upvote_count
                    \/ /\ threads[r.rows[i]].upvote_count
                             = threads[r.rows[j]].upvote_count
                       /\ threads[r.rows[i]].created_at
                             >= threads[r.rows[j]].created_at
        /\ \A key \in {"-created_at", "-upvote_count"} :
              Cardinality(ListResponses(slug, key, q, f)) = 1

\* C20: a query that is absent, empty or shorter than 3 characters after
\* padding is no full-text filter: for an existing category and a
\* recognised sort key the listing is served and shows all threads of the
\* category that are not deleted (of these, with a tag filter, the ones
\* that carry a listed tag), whatever their titles.
C20_ShortQueryFallsBack ==
    \A slug \in Categories, key \in {"-created_at", "-upvote_count"},
       q \in Queries, f \in Filters :
        (~q.given \/ Len(<<" ">> \o q.text \o <<" ">>) < 3) =>
            \A r \in ListResponses(slug, key, q, f) :
               /\ r.outcome = "ok"
               /\ Listed(r.rows) =
                     {t \in DOMAIN threads :
                        /\ ~threads[t].is_deleted
                        /\ threads[t].category = slug
                        /\ (f.given /\ f.text # <<"">>) =>
                              \E i \in DOMAIN f.text :
                                 f.text[i] \in threads[t].tags}

\* The three threads of a category, whose titles no query of the requests
\* matches all at once, have been listed together: the listing of a
\* request without a query or with an empty one.
C20_Witness ==
    /\ last = Response("list", "ok")
    /\ Listed(listing) = {1, 2, 3}
    /\ \A q \in Queries :
          (q.given /\ q.text # <<>>) =>
             \E t \in {1, 2, 3} : t \notin fuzzy_search(q.text)

\* The number of positions of a thread's padded lower-case title at which
\* a 3-character substring of the padded query starts.
MatchCount(query, pk) ==
    LET t == <<" ">> \o [i \in DOMAIN threads[pk].title |->
                            IF threads[pk].title[i] = "D" THEN "d"
                            ELSE threads[pk].title[i]] \o <<" ">>
        p == <<" ">> \o query \o <<" ">>
    IN  Cardinality({i \in 1..(Len(t) - 2) :
            \E j \in 1..(Len(p) - 2) :
               \A k \in 0..2 : t[i + k] = p[j + k]})

\* C21: for every non-empty query, the search candidates are exactly the
\* threads with at least 2 indexed shingle occurrences matching a shingle
\* of the padded query, and a listing with that query and no tag filter
\* shows exactly the category's live threads among them: a thread with
\* score 0 or 1 is never returned.
C21_CandidateIffScoreAtLeastTwo ==
    \A q \in Queries :
        (q.given /\ q.text # <<>>) =>
           /\ fuzzy_search(q.text) =
                 {t \in DOMAIN threads : MatchCount(q.text, t) >= 2}
           /\ \A slug \in Categories, key \in {"-created_at", "-upvote_count"} :
                 \A r \in ListResponses(slug, key, q, Absent) :
                    Listed(r.rows) =
                       {t \in DOMAIN threads :
                          /\ MatchCount(q.text, t) >= 2
                          /\ threads[t].category = slug
                          /\ ~threads[t].is_deleted}

\* With no thread deleted, a listing has been served that shows the two
\* threads of the category whose titles match a query of the requests
\* twice and not the third, which scores 0: no tag filter gives it.
C21_Witness ==
    /\ last = Response("list", "ok")
    /\ \A t \in DOMAIN threads : ~threads[t].is_deleted
    /\ Listed(listing) = {1, 2}
    /\ \E q \in Queries :
          /\ MatchCount(q.text, 1) = 2 /\ MatchCount(q.text, 2) = 2
          /\ MatchCount(q.text, 3) = 0
    /\ \E q \in Queries : q.given /\ MatchCount(q.text, 1) = 1
    /\ threads[3].category = threads[1].category

\* The number of times a thread occurs in the rows of a listing.
Occurrences(rows, t) == Cardinality({i \in DOMAIN rows : rows[i] = t})

\* C29: in the listing of a request with a tag set every thread shown
\* occurs once, whether it carries one of the listed tags or several: no
\* thread occurs twice, and a thread of the category that is not deleted,
\* matches the search if there is one and carries any number (one or more)
\* of the listed tags occurs exactly once.
C29_TagFilterListsOnce ==
    \A slug \in Categories, key \in OrderKeys, q \in Queries, f \in Filters :
        FilterTruthy(f) =>
            \A r \in ListResponses(slug, key, q, f) :
               /\ \A i, j \in DOMAIN r.rows : r.rows[i] = r.rows[j] => i = j
               /\ \A t \in DOMAIN threads :
                     (/\ ~threads[t].is_deleted
                      /\ threads[t].category = slug
                      /\ QueryTruthy(q) => t \in fuzzy_search(q.text)
                      /\ \E i \in DOMAIN f.text : f.text[i] \in threads[t].tags)
                     => Occurrences(r.rows, t) = 1

\* Reached: with another thread of the category deleted, a listing has
\* been served in which the thread carrying both #ml and #os and the
\* thread carrying only #ml occur once each, as the filter '#ml,#os'
\* gives.
C29_Witness ==
    /\ last = Response("list", "ok")
    /\ threads[2].is_deleted
    /\ ~threads[1].is_deleted /\ ~threads[3].is_deleted
    /\ {"#ml", "#os"} \subseteq threads[1].tags
    /\ threads[3].tags \cap {"#ml", "#os"} = {"#ml"}
    /\ Occurrences(listing, 1) = 1
    /\ Occurrences(listing, 3) = 1
    /\ Len(listing) = 2
    /\ \E r \in ListResponses("cse", "-created_at", Absent,
                              Param(<<"#ml", "#os">>)) : r.rows = listing

(* ------------------------------- editing ------------------------------- *)
\* Thread.save (section 4.1): writes the row and replaces the thread's
\* index entries by the shingles of the row's title, in one step.
ThreadSave(pk, row) ==
    /\ threads' = [threads EXCEPT ![pk] = row]
    /\ trigrams' = [trigrams EXCEPT ![pk] = index(row.title)]

\* ThreadEditView.test_func
EditTestFunc(user, pk) == threads[pk].author = user

\* The model form of ThreadEditView (fields): the instance with the
\* submitted title and tags.
EditFormKeepsTitle(object, title, tags) == [object EXCEPT !.tags = tags]

EditForm(object, title, tags) ==
    [object EXCEPT !.title = title, !.tags = tags]

\* ThreadEditView on POST: dispatch (test_func), get_object, the form's
\* validation.  `valid` tells if the fields other than the title validate;
\* an empty title does not.
EditPost(user, pk, title, tags, valid) ==
    /\ HasRoom
    /\ IF pk \notin DOMAIN threads
       THEN /\ last' = Response("edit", "NotFound")
            /\ UNCHANGED reqs
       ELSE IF ~EditTestFunc(user, pk)
       THEN /\ last' = Response("edit", "Forbidden")
            /\ UNCHANGED reqs
       ELSE IF ~valid \/ title = <<>>
       THEN /\ last' = Response("edit", "form_invalid")
            /\ UNCHANGED reqs
       ELSE /\ reqs' = reqs (+) One(
                  [view |-> "edit", user |-> user, pk |-> pk,
                   title |-> title,
                   object |-> EditForm(threads[pk], title, tags)])
            /\ UNCHANGED last
    /\ UNCHANGED <<threads, replies, reports, now, lastToggle, toggled, listing>>
    /\ UNCHANGED <<trigrams, mails, workers, command>>

\* UpdateView.form_valid: form.save() saves the instance.
EditFormValid(self) ==
    /\ BagIn(self, reqs)
    /\ self.view = "edit"
    /\ ThreadSave(self.pk, self.object)
    /\ last' = Response("edit", "ok")
    /\ reqs' = reqs (-) One(self)
    /\ UNCHANGED <<replies, reports, now, lastToggle, toggled, listing>>
    /\ UNCHANGED <<mails, workers, command>>

\* The store of the editing runs: the three threads of the first category.
EditThreads == {1, 2, 3}

InitEdit ==
    /\ threads = [t \in EditThreads |->
                    [author |-> ThreadAuthor(t), upvote_count |-> 0,
                     upvotes |-> {}, is_deleted |-> FALSE,
                     is_locked |-> FALSE, category |-> ThreadCategory(t),
                     title |-> ThreadTitle(t), tags |-> ThreadTags(t),
                     created_at |-> t]]
    /\ replies = <<>>
    /\ reports = <<>>
    /\ now = 0
    /\ reqs = EmptyBag
    /\ last = Response("-", "-")
    /\ lastToggle = NoToggle
    /\ toggled = [t \in Targets |-> {}]
    /\ listing = <<>>
    /\ trigrams = IndexOf(threads)
    /\ mails = EmptyBag
    /\ workers = <<>>
    /\ command = NoCommand

\* The edit requests of the editing runs: user, pk, title, tags, valid.
EditInputs ==
    {<<"ana", 1, <<"o", "s">>, {"#ml"}, TRUE>>,
     <<"ana", 1, <<"D", "a", "t", "a">>, {"#ml", "#os"}, TRUE>>,
     <<"ana", 1, <<"d", "a", "t", "e">>, {}, TRUE>>,
     <<"bo", 2, <<"d", "a", "t", "e">>, {"#ai"}, TRUE>>,
     <<"bo", 2, <<"D", "a", "t", "a">>, {"#ai"}, TRUE>>,
     <<"bo", 3, <<>>, {"#ml"}, TRUE>>,
     <<"bo", 3, <<"o", "s">>, {"#ml"}, FALSE>>,
     <<"bo", 1, <<"o", "s">>, {}, TRUE>>,
     <<"mod", 4, <<"o", "s">>, {}, TRUE>>}

\* The queries of the listings of the editing runs.
EditQueries == {Param(<<"d", "a", "t">>), Param(<<"o", "s">>)}

NextEdit ==
    \/ \E i \in EditInputs : EditPost(i[1], i[2], i[3], i[4], i[5])
    \/ \E self \in BagToSet(reqs) : EditFormValid(self)
    \/ \E q \in EditQueries : ThreadList("cse", "-created_at", q, Absent)

SpecEdit == InitEdit /\ [][NextEdit]_vars

(* --------------------------- editing: claims --------------------------- *)
\* The 3-character substrings of a title in lower case with a space on
\* each side, in order.
TitleShingles(title) ==
    LET t == <<" ">> \o [i \in DOMAIN title |->
                            IF title[i] = "D" THEN "d" ELSE title[i]]
                    \o <<" ">>
    IN  [i \in 1..(Len(t) - 2) |-> <<t[i], t[i + 1], t[i + 2]>>]

\* C22: index replaces the thread's entries: in every state each thread's
\* entries are exactly the shingles of the title indexed last for it (the
\* title of its row), so none of an earlier title remains; the save of an
\* edit leaves the thread with the shingles of the submitted title and
\* the entries of the other threads as they were; and indexing the title
\* the thread already has leaves its entries as they were.
C22_IndexReplaces ==
    /\ [](\A pk \in DOMAIN threads :
            trigrams[pk] = TitleShingles(threads[pk].title))
    /\ [][\A self \in BagToSet(reqs) : EditFormValid(self) =>
            /\ trigrams'[self.pk] = TitleShingles(self.title)
            /\ \A pk \in DOMAIN threads \ {self.pk} :
                  trigrams'[pk] = trigrams[pk]
            /\ self.title = threads[self.pk].title =>
                  trigrams'[self.pk] = trigrams[self.pk]
       ]_vars

\* A thread has been edited to a title that shares no shingle with the
\* title it had, and a second thread to the first one's former title.
C22_Witness ==
    /\ last = Response("edit", "ok")
    /\ threads[1].title = <<"o", "s">>
    /\ trigrams[1] = <<<<" ", "o", "s">>, <<"o", "s", " ">>>>
    /\ threads[2].title = <<"D", "a", "t", "a">>
    /\ Len(trigrams[2]) = 4
    /\ trigrams[3] = trigrams[1]

(* ----------------------------- notifications -------------------------- *)
\* What a send meets: the mail is delivered, the mail server fails
\* (smtplib.SMTPException, OSError), or the message cannot be built
\* (an exception fail_silently does not cover).
Fates == {"delivered", "smtp_error", "bad_message"}

\* django.core.mail.send_mail and send_mass_mail: how the call ends.
send_mail(fate, fail_silently) ==
    IF fate = "delivered" THEN "returned"
    ELSE IF fate = "smtp_error" /\ fail_silently THEN "returned"
    ELSE "raised"

\* The inner function send of queue_mail and of queue_mass_mail.
send(fate) == send_mail(fate, TRUE)

\* A notification thread: its target function has not finished yet.
MailThread(via, for, fate) ==
    [via |-> via, for |-> for, fate |-> fate, state |-> "started"]

\* queue_mail and queue_mass_mail: how the call ends for the caller and
\* the threads it has started.
queue_mail_inline(for, fate) ==
    [call |-> send(fate), started |-> EmptyBag]

queue_mail(for, fate) ==
    [call |-> "returned",
     started |-> One(MailThread("queue_mail", for, fate))]

queue_mass_mail_inline(for, fate) ==
    [call |-> send(fate), started |-> EmptyBag]

queue_mass_mail(for, fate) ==
    [call |-> "returned",
     started |-> One(MailThread("queue_mass_mail", for, fate))]

\* Room for one more notification thread.
MailRoom == BagCardinality(mails) < MaxMails

\* A lock request with the notification of section 6: Lock, followed by
\* queue_mail to the thread's author.
LockNotify(user, pk, fate) ==
    LET q == queue_mail("lock", fate)
    IN  /\ MailRoom
        /\ IF pk \notin Objects("thread")
           THEN /\ last' = Response("lock", "NotFound")
                /\ UNCHANGED <<threads, mails>>
           ELSE IF ~LockTestFunc(user)
           THEN /\ last' = Response("lock", "Forbidden")
                /\ UNCHANGED <<threads, mails>>
           ELSE /\ threads' = [threads EXCEPT ![pk] = update_lock(@)]
                /\ mails' = mails (+) q.started
                /\ last' = Response("lock",
                      IF q.call = "raised" THEN "error" ELSE "ok")
        /\ UNCHANGED <<replies, reports, now, reqs, lastToggle, toggled, listing>>
        /\ UNCHANGED <<trigrams, workers, command>>

\* The form_valid of a report with the notification of section 6:
\* ReportFormValid, followed by queue_mass_mail to the staff.
ReportFormValidNotify(self, fate) ==
    LET q == queue_mass_mail("report", fate)
    IN  /\ MailRoom
        /\ BagIn(self, reqs)
        /\ self.view = "report"
        /\ reports' = Append(reports,
              [NewReport EXCEPT
                  !.reporter = self.user,
                  !.thread = IF self.type = "thread" THEN self.pk ELSE @,
                  !.reply = IF self.type = "reply" THEN self.pk ELSE @])
        /\ mails' = mails (+) q.started
        /\ last' = Response("report",
              IF q.call = "raised" THEN "error" ELSE "ok")
        /\ reqs' = reqs (-) One(self)
        /\ UNCHANGED <<threads, replies, now, lastToggle, toggled, listing>>
        /\ UNCHANGED <<trigrams, workers, command>>

\* threading.Thread.run of a notification thread: send returns, or raises
\* and the thread ends with the exception.
MailRun(m) ==
    /\ BagIn(m, mails)
    /\ m.state = "started"
    /\ mails' = (mails (-) One(m)) (+)
          One([m EXCEPT !.state =
                  IF send(m.fate) = "raised" THEN "died" ELSE "finished"])
    /\ UNCHANGED <<threads, replies, reports, now, reqs, last, lastToggle, toggled, listing>>
    /\ UNCHANGED <<trigrams, workers, command>>

NextNotify ==
    \/ \E in \in ReportInputs :
          /\ Len(reports) + BagCardinality(reqs) < MaxLifeReports
          /\ ReportClean(in[1], in[2], in[3])
    \/ \E self \in Instances, fate \in Fates :
          ReportFormValidNotify(self, fate)
    \/ \E u \in Users, pk \in Pks, fate \in Fates : LockNotify(u, pk, fate)
    \/ \E m \in BagToSet(mails) : MailRun(m)

SpecNotify == Init /\ [][NextNotify]_vars

(* ------------------------ notifications: claims ------------------------ *)
\* C23: a failure of the notification send never fails or undoes the
\* operation that triggered it: whatever the send meets, a lock request of
\* staff on an existing thread and the form_valid of a report succeed,
\* make their state change and start one thread; and a step in which a
\* notification thread ends, with the send done, failed or raising, starts
\* no thread and leaves the store, the requests in flight and the last
\* response as they were.
C23_NotifyNeverFailsTheOperation ==
    /\ [][\A u \in Staff, pk \in DOMAIN threads, fate \in Fates :
            LockNotify(u, pk, fate) =>
               /\ last' = Response("lock", "ok")
               /\ threads'[pk].is_locked # threads[pk].is_locked
               /\ BagCardinality(mails') = BagCardinality(mails) + 1
       ]_vars
    /\ [][\A self \in BagToSet(reqs), fate \in Fates :
            ReportFormValidNotify(self, fate) =>
               /\ last' = Response("report", "ok")
               /\ Len(reports') = Len(reports) + 1
               /\ SubSeq(reports', 1, Len(reports)) = reports
               /\ BagCardinality(mails') = BagCardinality(mails) + 1
       ]_vars
    /\ [][(\E m \in BagToSet(mails) :
               /\ m.state = "started"
               /\ CopiesIn(m, mails') < CopiesIn(m, mails)) =>
            /\ BagCardinality(mails') = BagCardinality(mails)
            /\ UNCHANGED <<threads, replies, reports, reqs, last>>
       ]_vars

\* A lock's send has raised in its thread and a report's send has failed
\* silently; the thread is locked, the report is in the store and the
\* last request, a lock, succeeded.
C23_Witness ==
    /\ last = Response("lock", "ok")
    /\ threads[1].is_locked
    /\ Len(reports) = 1
    /\ \E m \in BagToSet(mails) :
          m.for = "lock" /\ m.fate = "bad_message" /\ m.state = "died"
    /\ \E m \in BagToSet(mails) :
          m.for = "report" /\ m.fate = "smtp_error" /\ m.state = "finished"

(* ----------------------------- report queue ---------------------------- *)
\* ReportListView.paginate_by
PaginateBy == 10

\* ReportListView.test_func
ReportListTestFunc(user) == user \in Staff

\* The place of a stored status in the ascending order of the column: the
\* stored values order as the names of section 3 do.
StatusRank(status) == IF status = "PENDING" THEN 1 ELSE 2

\* order_by('status', '-created_at'): report a may come before report b.
QueueOrderRecencyOnly(a, b) == a.created_at >= b.created_at

QueueOrder(a, b) ==
    \/ StatusRank(a.status) < StatusRank(b.status)
    \/ /\ StatusRank(a.status) = StatusRank(b.status)
       /\ a.created_at >= b.created_at

\* ReportListView.get_queryset: the orders the database may return the
\* reports in; reports equal on both keys come in any order.
ReportQueryset ==
    {seq \in [1..Len(reports) -> DOMAIN reports] :
        /\ \A i, j \in DOMAIN seq : i # j => seq[i] # seq[j]
        /\ \A i, j \in DOMAIN seq :
              i < j => QueueOrder(reports[seq[i]], reports[seq[j]])}

\* The paginator: the rows of a page.
Page(seq, page) ==
    SubSeq(seq, (page - 1) * PaginateBy + 1,
           IF page * PaginateBy < Len(seq) THEN page * PaginateBy
           ELSE Len(seq))

\* ReportListView on GET: the responses the request can get, each with
\* the reports of its page in order.
QueueResponses(user, page) ==
    IF ~ReportListTestFunc(user)
    THEN {[outcome |-> "Forbidden", rows |-> <<>>]}
    ELSE IF page > 1 /\ (page - 1) * PaginateBy >= Len(reports)
    THEN {[outcome |-> "NotFound", rows |-> <<>>]}
    ELSE {[outcome |-> "ok", rows |-> Page(seq, page)] :
             seq \in ReportQueryset}

\* A request to ReportListView
ReportList(user, page) ==
    /\ \E r \in QueueResponses(user, page) :
          /\ last' = Response("reports", r.outcome)
          /\ listing' = r.rows
    /\ UNCHANGED <<threads, replies, reports, now, reqs, lastToggle, toggled>>
    /\ UNCHANGED <<trigrams, mails, workers, command>>

\* The requests of the queue runs.
QueueReports == {<<"ana", "thread", 1>>}

QueueUsers == {"mod", "ana"}

QueuePages == {1, 2}

NextQueue ==
    \/ \E in \in QueueReports :
          /\ LifeRoom
          /\ Len(reports) < MaxQueueReports
          /\ ReportClean(in[1], in[2], in[3])
    \/ \E self \in Instances : ReportFormValid(self)
    \/ now < MaxQueueTime /\ Tick
    \/ \E pk \in ReportPks : Resolve("mod", pk)
    \/ \E u \in QueueUsers, page \in QueuePages : ReportList(u, page)

SpecQueue == Init /\ [][NextQueue]_vars

(* ------------------------- report queue: claims ------------------------ *)
\* C24: whatever reports the store holds, every response of the report
\* queue to staff lists each report once, every PENDING report before
\* every RESOLVED report, and reports of the same status by creation time,
\* most recent first.
C24_PendingFirstThenRecent ==
    \A r \in QueueResponses("mod", 1) :
        /\ r.outcome = "ok"
        /\ Len(r.rows) = Len(reports)
        /\ {r.rows[i] : i \in DOMAIN r.rows} = DOMAIN reports
        /\ \A i, j \in DOMAIN r.rows :
              i < j =>
                 /\ ~(/\ reports[r.rows[i]].status = "RESOLVED"
                      /\ reports[r.rows[j]].status = "PENDING")
                 /\ reports[r.rows[i]].status = reports[r.rows[j]].status =>
                       reports[r.rows[i]].created_at
                          >= reports[r.rows[j]].created_at

\* The queue has been served with an older PENDING report ahead of a
\* newer RESOLVED one and behind a newer PENDING one.
C24_Witness ==
    /\ last = Response("reports", "ok")
    /\ Len(listing) = 3
    /\ Len(reports) = 3
    /\ \A i \in 1..3 : listing[i] \in DOMAIN reports
    /\ reports[listing[1]].status = "PENDING"
    /\ reports[listing[2]].status = "PENDING"
    /\ reports[listing[3]].status = "RESOLVED"
    /\ reports[listing[1]].created_at > reports[listing[2]].created_at
    /\ reports[listing[3]].created_at > reports[listing[2]].created_at

(* ------------------------------- populate ------------------------------ *)
\* The populate commands large_data and populate_data: Command.handle
\* splits the threads among worker processes running create_content_worker.
MAX_UPVOTES == 20
MAX_REPLIES == 8
RetryDelay == 100000       \* retry_delay = 0.1, in microseconds
Attempts == 5              \* range(5)

Scripts == {"large_data", "populate_data"}

Range(seq) == {seq[i] : i \in DOMAIN seq}

\* chunk_size, remainder and tasks of Command.handle
tasks_no_remainder(total_threads, nworkers) ==
    [i \in 1..nworkers |-> total_threads \div nworkers]

tasks(total_threads, nworkers) ==
    LET chunk_size == total_threads \div nworkers
        remainder == total_threads % nworkers
    IN  [i \in 1..nworkers |->
            chunk_size + (IF i - 1 < remainder THEN 1 ELSE 0)]

\* What random and Faker give one attempt, apart from the users chosen:
\* the title, is_locked, the tag added (or "-"), num_votes and the number
\* of replies.
RandomDraws ==
    {[title |-> <<"o", "s">>, is_locked |-> FALSE, tag |-> "-",
      num_votes |-> 0, replies |-> 0],
     [title |-> <<"D", "a", "t", "a">>, is_locked |-> TRUE, tag |-> "#ml",
      num_votes |-> 1, replies |-> 1],
     [title |-> <<"o", "s">>, is_locked |-> FALSE, tag |-> "#os",
      num_votes |-> MAX_UPVOTES, replies |-> 0]}

\* random.sample(user_ids, k=min(num_votes, len(user_ids)))
sample(user_ids, num_votes) ==
    LET k == IF num_votes < Len(user_ids) THEN num_votes ELSE Len(user_ids)
    IN  {v \in SUBSET Range(user_ids) : Cardinality(v) = k}

\* populate_data: thread.update_upvotes(u) for each of the voters.
RECURSIVE update_upvotes_each(_, _)
update_upvotes_each(row, users) ==
    IF users = {} THEN row
    ELSE LET u == CHOOSE x \in users : TRUE
         IN  update_upvotes_each(update_upvotes(row, row, u), users \ {u})

\* The upvotes block of a worker: large_data sets the voters and writes
\* num_votes to upvote_count; populate_data toggles voter by voter.
SetVotes(script, row, num_votes, voters) ==
    IF num_votes > 0
    THEN IF script = "large_data"
         THEN [row EXCEPT !.upvotes = voters, !.upvote_count = num_votes]
         ELSE update_upvotes_each(row, voters)
    ELSE row

\* The rows the block of one attempt has written when `stages` of its
\* four parts are done: Thread.objects.create, the tag, the upvotes, the
\* replies.  The replies point at the thread of the attempt.
Writes(script, draw, author, voters, reply_authors, stages) ==
    LET created == [author |-> author, upvote_count |-> 0, upvotes |-> {},
                    is_deleted |-> FALSE, is_locked |-> draw.is_locked,
                    category |-> "cse", title |-> draw.title, tags |-> {},
                    created_at |-> now]
        tagged == IF stages >= 2 /\ draw.tag # "-"
                  THEN [created EXCEPT !.tags = {draw.tag}] ELSE created
        voted == IF stages >= 3
                 THEN SetVotes(script, tagged, draw.num_votes, voters)
                 ELSE tagged
    IN  [threads |-> IF stages >= 1 THEN <<voted>> ELSE <<>>,
         replies |-> IF stages >= 4
                     THEN [i \in 1..draw.replies |->
                             NewReply(reply_authors[i], NoObj)]
                     ELSE <<>>]

\* transaction.atomic(): what is left of the writes of a block that
\* raised.
RollbackKeepsWrites(writes) == writes

Rollback(writes) == [threads |-> <<>>, replies |-> <<>>]

\* The store takes the writes: the thread gets the next pk, its title is
\* indexed, and the replies get the pks after the last reply.
Apply(writes) ==
    LET pk == Len(threads) + 1
    IN  /\ threads' = threads \o writes.threads
        /\ trigrams' = trigrams \o
              [i \in DOMAIN writes.threads |-> index(writes.threads[i].title)]
        /\ replies' = replies \o
              [i \in DOMAIN writes.replies |->
                  [writes.replies[i] EXCEPT !.thread = pk]]

\* How an attempt ends, with the parts of the block done by then: the
\* block commits, or an OperationalError is raised at its first statement,
\* before the replies or at the commit, or another exception is raised
\* before the replies.
Endings ==
    {<<4, "commit">>, <<0, "OperationalError">>, <<3, "OperationalError">>,
     <<4, "OperationalError">>, <<3, "Exception">>}

\* except OperationalError: the attempt is made again.
RetryAny(exception) == TRUE

Retry(exception) == exception = "OperationalError"

\* A worker process before create_content_worker is called in it:
\* `done` counts the threads of range(count) gone through, `attempt` is
\* the attempt of range(5), `exception` and `slept` are what the except
\* clause of the attempt before caught and slept.
NewWorker(count) ==
    [pc |-> "start", count |-> count, done |-> 0, attempt |-> 0,
     retry_delay |-> RetryDelay, slept |-> 0, exception |-> "-",
     created |-> 0]

\* The worker moves to the next thread of range(count).
NextThread(w) ==
    [w EXCEPT !.done = @ + 1, !.attempt = 0, !.retry_delay = RetryDelay,
              !.slept = 0, !.exception = "-"]

\* Command.handle up to executor.submit: the tasks are computed and a
\* worker process is submitted for each.
Split ==
    /\ command.pc = "handle"
    /\ command' = [command EXCEPT
          !.pc = "collect",
          !.tasks = tasks(command.total_threads, command.workers)]
    /\ workers' = [i \in 1..command.workers |->
          NewWorker(tasks(command.total_threads, command.workers)[i])]
    /\ UNCHANGED <<threads, replies, reports, now, reqs, last, lastToggle, toggled, listing>>
    /\ UNCHANGED <<trigrams, mails>>

\* create_content_worker up to its loop: the mail patches, the database
\* connections; a failure here ends the process with the exception.
WorkerStart(i, ok) ==
    /\ i \in DOMAIN workers
    /\ workers[i].pc = "start"
    /\ workers' = [workers EXCEPT ![i].pc = IF ok THEN "loop" ELSE "raised"]
    /\ UNCHANGED <<threads, replies, reports, now, reqs, last, lastToggle, toggled, listing>>
    /\ UNCHANGED <<trigrams, mails, command>>

\* One attempt of create_content_worker to create a thread: the block in
\* transaction.atomic() with what follows it in the try statement and the
\* except clauses.
Attempt(i, draw, author, voters, reply_authors, stages, outcome) ==
    LET w == workers[i]
        writes == Writes(command.script, draw, author, voters,
                         reply_authors, stages)
    IN  /\ i \in DOMAIN workers
        /\ w.pc = "loop"
        /\ w.done < w.count
        /\ outcome = "commit" => stages = 4
        /\ IF outcome = "commit"
           THEN /\ Apply(writes)
                /\ workers' = [workers EXCEPT ![i] =
                      [NextThread(w) EXCEPT !.created = @ + 1]]
           ELSE /\ Apply(Rollback(writes))
                /\ workers' = [workers EXCEPT ![i] =
                      IF Retry(outcome)
                      THEN IF w.attempt + 1 < Attempts
                           THEN [w EXCEPT
                                   !.attempt = @ + 1,
                                   !.exception = outcome,
                                   !.slept = w.retry_delay,
                                   !.retry_delay = (@ * 3) \div 2]
                           ELSE NextThread(w)
                      ELSE NextThread(w)]
        /\ UNCHANGED <<reports, now, reqs, last, lastToggle, toggled, listing>>
        /\ UNCHANGED <<mails, command>>

\* create_content_worker after its loop: return created.
WorkerReturn(i) ==
    /\ i \in DOMAIN workers
    /\ workers[i].pc = "loop"
    /\ workers[i].done = workers[i].count
    /\ workers' = [workers EXCEPT ![i].pc = "returned"]
    /\ UNCHANGED <<threads, replies, reports, now, reqs, last, lastToggle, toggled, listing>>
    /\ UNCHANGED <<trigrams, mails, command>>

\* Command.handle, the as_completed loop: the result of a finished
\* worker is added to total_done; a worker that raised is reported.
Collect(i) ==
    /\ command.pc = "collect"
    /\ i \in DOMAIN workers
    /\ i \notin command.collected
    /\ workers[i].pc \in {"returned", "raised"}
    /\ command' = [command EXCEPT
          !.collected = @ \cup {i},
          !.total_done = IF workers[i].pc = "returned"
                         THEN @ + workers[i].created ELSE @]
    /\ UNCHANGED <<threads, replies, reports, now, reqs, last, lastToggle, toggled, listing>>
    /\ UNCHANGED <<trigrams, mails, workers>>

\* Command.handle after the loop.
Finish ==
    /\ command.pc = "collect"
    /\ command.collected = DOMAIN workers
    /\ command' = [command EXCEPT !.pc = "done"]
    /\ UNCHANGED <<threads, replies, reports, now, reqs, last, lastToggle, toggled, listing>>
    /\ UNCHANGED <<trigrams, mails, workers>>

\* The user ids handed to the workers.
UserIdLists == {<<"ana">>, <<"ana", "bo">>}

\* The command is run on a store without threads.
InitBatch ==
    /\ threads = <<>>
    /\ replies = <<>>
    /\ reports = <<>>
    /\ now = 0
    /\ reqs = EmptyBag
    /\ last = Response("-", "-")
    /\ lastToggle = NoToggle
    /\ toggled = [t \in Targets |-> {}]
    /\ listing = <<>>
    /\ trigrams = <<>>
    /\ mails = EmptyBag
    /\ workers = <<>>
    /\ \E script \in Scripts, total \in 0..MaxThreads,
          n \in 1..MaxWorkers, ids \in UserIdLists :
          command = [pc |-> "handle", script |-> script,
                     total_threads |-> total, workers |-> n,
                     user_ids |-> ids, tasks |-> <<>>, total_done |-> 0,
                     collected |-> {}]

NextBatch ==
    \/ Split
    \/ \E i \in 1..MaxWorkers, ok \in BOOLEAN : WorkerStart(i, ok)
    \/ \E i \in 1..MaxWorkers, draw \in RandomDraws, end \in Endings :
          \E author \in {Head(command.user_ids)},
             voters \in sample(command.user_ids, draw.num_votes),
             reply_authors \in
                [1..draw.replies -> {command.user_ids[Len(command.user_ids)]}] :
             Attempt(i, draw, author, voters, reply_authors, end[1], end[2])
    \/ \E i \in 1..MaxWorkers : WorkerReturn(i)
    \/ \E i \in 1..MaxWorkers : Collect(i)
    \/ Finish

SpecBatch == InitBatch /\ [][NextBatch]_vars

\* The processes are scheduled: a step that can be taken is taken.
SpecBatchFair == SpecBatch /\ WF_vars(NextBatch)

(* --------------------------- populate: claims -------------------------- *)
\* C25: every thread committed by the worker of large_data has
\* upvote_count equal to the number of voters set on it, for every
\* num_votes drawn and every non-empty list of user ids, also a list with
\* fewer users than num_votes.
C25_LargeDataCountIsVoters ==
    command.script = "large_data" =>
        \A pk \in DOMAIN threads :
            threads[pk].upvote_count = Cardinality(threads[pk].upvotes)

(* ------------------- replies on deleted threads: claims --------------- *)
\* C26: no Reply is created on a thread that is soft-deleted when the
\* submission loads it: a step that adds a reply on a thread starts in a
\* state where the thread is not deleted; a reply submission for a thread
\* that is deleted when post loads it, and a form_valid that finds it
\* deleted when it loads it again, end not found and leave the threads,
\* replies and reports as they were.
C26_NoReplyOnDeletedThread ==
    /\ [][\A pk \in DOMAIN threads :
            (\E r \in DOMAIN replies' \ DOMAIN replies :
                replies'[r].thread = pk) => ~threads[pk].is_deleted
       ]_vars
    /\ [][\A in \in ReplyInputs :
            (/\ in[2] \in DOMAIN threads
             /\ threads[in[2]].is_deleted
             /\ ReplyPost(in[1], in[2], in[3], in[4])) =>
               /\ last' = Response("reply", "NotFound")
               /\ UNCHANGED <<threads, replies, reports, reqs>>
       ]_vars
    /\ [][\A self \in BagToSet(reqs) :
            (/\ self.view = "reply"
             /\ threads[self.pk].is_deleted
             /\ ReplyFormValid(self)) =>
               /\ last' = Response("reply", "NotFound")
               /\ UNCHANGED <<threads, replies, reports>>
       ]_vars

\* A thread that got a reply while it was live has been deleted, and a
\* later submission for it has ended not found; no request is in flight.
C26_Witness ==
    /\ last = Response("reply", "NotFound")
    /\ reqs = EmptyBag
    /\ threads[1].is_deleted
    /\ Cardinality({r \in DOMAIN replies : replies[r].thread = 1}) = 2
    /\ ~threads[2].is_deleted
    /\ ~threads[1].is_locked

\* C27: create_content_worker always terminates: a worker makes at most
\* 5 attempts for a thread; it is on a further attempt for a thread only
\* after an attempt for it failed with OperationalError, having waited
\* 0.1 s times 1.5 for each earlier wait; every attempt takes it closer
\* to the end of its range(count); and every worker and the command come
\* to their end.
C27_WorkerTerminates ==
    /\ [](\A i \in DOMAIN workers :
            /\ workers[i].done <= workers[i].count
            /\ workers[i].attempt \in 0..4
            /\ workers[i].attempt > 0 =>
                  /\ workers[i].exception = "OperationalError"
                  /\ workers[i].done < workers[i].count
                  /\ workers[i].slept =
                        <<100000, 150000, 225000, 337500>>[workers[i].attempt])
    /\ [][\A i \in DOMAIN workers :
            (workers'[i] # workers[i] /\ workers[i].pc = "loop") =>
               \/ workers'[i].pc = "returned"
               \/ (workers'[i].count - workers'[i].done) * 5
                      - workers'[i].attempt
                    < (workers[i].count - workers[i].done) * 5
                      - workers[i].attempt
       ]_vars
    /\ <>(/\ command.pc = "done"
          /\ \A i \in DOMAIN workers :
                workers[i].pc \in {"returned", "raised"})

\* A worker asked for two threads is on its fifth attempt for the second
\* one, after four waits, having given up the first without creating it.
C27_Witness ==
    /\ 1 \in DOMAIN workers
    /\ workers[1].pc = "loop"
    /\ workers[1].count = 2
    /\ workers[1].done = 1
    /\ workers[1].created = 0
    /\ workers[1].attempt = 4
    /\ workers[1].slept = 337500
    /\ threads = <<>>

\* The sum of `created` over the workers.
RECURSIVE CreatedSum(_)
CreatedSum(ws) ==
    IF ws = <<>> THEN 0 ELSE Head(ws).created + CreatedSum(Tail(ws))

\* C28: an attempt is all-or-nothing.  A step of a worker in its loop that
\* does not raise `created` (the attempt raised) leaves the threads with
\* their tags and votes, the index and the replies as they were; a step
\* that raises it raises it by one, adds exactly one thread and moves to
\* the next thread of range(count), and the replies it adds are on that
\* thread.  So the workers' `created` sum to the threads in the store,
\* which started without any, every reply is on a thread of the store, and
\* created <= done <= count for every worker.
C28_AttemptAllOrNothing ==
    /\ [](/\ CreatedSum(workers) = Len(threads)
          /\ Len(trigrams) = Len(threads)
          /\ \A r \in DOMAIN replies : replies[r].thread \in DOMAIN threads
          /\ \A i \in DOMAIN workers :
                /\ workers[i].created <= workers[i].done
                /\ workers[i].done <= workers[i].count)
    /\ [][\A i \in DOMAIN workers :
            (workers[i].pc = "loop" /\ workers'[i] # workers[i]) =>
               IF workers'[i].created = workers[i].created
               THEN /\ threads' = threads
                    /\ trigrams' = trigrams
                    /\ replies' = replies
               ELSE /\ workers'[i].created = workers[i].created + 1
                    /\ workers'[i].done = workers[i].done + 1
                    /\ Len(threads') = Len(threads) + 1
                    /\ SubSeq(threads', 1, Len(threads)) = threads
                    /\ SubSeq(replies', 1, Len(replies)) = replies
                    /\ \A r \in DOMAIN replies' \ DOMAIN replies :
                          replies'[r].thread = Len(threads')
       ]_vars

\* Reached: a worker has committed its first thread with a tag, a vote and
\* a reply, and two attempts at its second thread have raised; the store
\* holds the one thread and its reply.
C28_Witness ==
    /\ 1 \in DOMAIN workers
    /\ workers[1].pc = "loop"
    /\ workers[1].count = 2
    /\ workers[1].done = 1
    /\ workers[1].created = 1
    /\ workers[1].attempt = 2
    /\ Len(threads) = 1
    /\ threads[1].tags = {"#ml"}
    /\ threads[1].upvotes # {}
    /\ Len(replies) = 1

\* The sum of a sequence of numbers.
RECURSIVE SeqSum(_)
SeqSum(seq) == IF seq = <<>> THEN 0 ELSE Head(seq) + SeqSum(Tail(seq))

\* A task list is an exact split of total_threads over nworkers.
ExactSplit(list, total_threads, nworkers) ==
    /\ Len(list) = nworkers
    /\ SeqSum(list) = total_threads
    /\ \A i, j \in DOMAIN list :
          list[i] \in Nat /\ list[i] - list[j] <= 1

\* C30: the work split is exact.  For total_threads >= 0 and workers >= 1
\* the task list has `workers` entries that sum to total_threads and
\* differ by at most 1, both for the command that ran and for every
\* total_threads up to four times and workers up to twice the largest of
\* the runs; and total_done, the sum of the counts of the workers
\* collected so far, never exceeds total_threads.
C30_SplitExact ==
    /\ \A total \in 0..(4 * MaxThreads), n \in 1..(2 * MaxWorkers) :
          ExactSplit(tasks(total, n), total, n)
    /\ command.pc # "handle" =>
          /\ ExactSplit(command.tasks, command.total_threads, command.workers)
          /\ \A i \in DOMAIN workers : workers[i].count = command.tasks[i]
    /\ command.total_done <= command.total_threads
    /\ command.total_done =
          SeqSum([i \in DOMAIN workers |->
                    IF i \in command.collected /\ workers[i].pc = "returned"
                    THEN workers[i].created ELSE 0])

\* Reached: the command has finished the smallest uneven split: one
\* thread over two workers gives the tasks 1 and 0, both workers have
\* returned and been collected, and total_done is the one thread created.
C30_Witness ==
    /\ command.pc = "done"
    /\ command.total_threads = 1
    /\ command.workers = 2
    /\ command.tasks = <<1, 0>>
    /\ command.collected = {1, 2}
    /\ command.total_done = 1
    /\ Len(threads) = 1

Next ==
    \/ NextVote \/ NextReport \/ NextModerate \/ NextReply \/ NextLife
    \/ NextList \/ NextEdit \/ NextNotify \/ NextQueue \/ NextBatch

Spec == Init /\ [][Next]_vars

====
